---- MODULE Spec2Model ----
(***************************************************************************)
(* Model of helpers/models/sd3/model.py (class SD3): the adapter loader    *)
(* load_lora_weights, the configuration validator check_user_config, the   *)
(* prompt encoder _encode_prompts and the two embedding formatters.        *)
(* Three specifications, one per component: SpecLoad, SpecConfig and       *)
(* SpecEncode.  Python None is the string "None" for names and the empty   *)
(* sequence <<>> for optional integers (Some(n) is <<n>>).                 *)
(***************************************************************************)
EXTENDS Integers, Sequences, FiniteSets, TLC

VARIABLES
    \* ---- load_lora_weights (SpecLoad) ----
    models,               \* the roster argument, drained with pop()
    roster0,              \* the roster as passed in
    wrapped,              \* the sub-models that are held inside a distribution wrapper
    checkpoint,           \* what pipeline_class.lora_state_dict(input_dir) returns
    train_text_encoder,   \* self.args.train_text_encoder
    transformer_,
    denoiser,
    text_encoder_one_,
    text_encoder_two_,
    lora_state_dict,
    denoiser_state_dict,
    weights,              \* adapter keys applied to each sub-model
    loadLog,              \* logger.warning calls of load_lora_weights
    loadPc,               \* "drain", "read", "apply", "returned", "raised"
    loadErr,              \* exception that left the call, "None" if none
    \* ---- check_user_config (SpecConfig) ----
    config,               \* self.config
    config0,              \* self.config before the call
    cfgLog,               \* logger calls of check_user_config
    cfgPc,                \* "start", "returned", "raised"
    \* ---- _encode_prompts and formatters (SpecEncode) ----
    prompts,              \* true T5 token count of each prompt
    widths,               \* hidden widths of CLIP-L, CLIP-G and T5
    encConfig,            \* self.config: t5_padding, tokenizer_max_length
    embeds,               \* what _encode_prompts returned
    stored,               \* what _format_text_embedding returned
    pipelineEmbeds,       \* what convert_text_embed_for_pipeline returned
    encPc                 \* "start", "encoded", "stored", "converted"

loadVars == <<models, roster0, wrapped, checkpoint, train_text_encoder, transformer_,
              denoiser, text_encoder_one_, text_encoder_two_, lora_state_dict,
              denoiser_state_dict, weights, loadLog, loadPc, loadErr>>
cfgVars == <<config, config0, cfgLog, cfgPc>>
encVars == <<prompts, widths, encConfig, embeds, stored, pipelineEmbeds, encPc>>
vars == <<loadVars, cfgVars, encVars>>

None == "None"

(***************************************************************************)
(* Bounds of the model.                                                    *)
(***************************************************************************)
MaxRoster == 3

Range(s) == {s[i] : i \in 1..Len(s)}

RECURSIVE SeqsUpTo(_, _)
\* all sequences of distinct elements of S of length at most n
SeqsUpTo(S, n) ==
    IF n = 0 THEN {<<>>}
    ELSE LET shorter == SeqsUpTo(S, n - 1)
         IN  shorter \cup UNION {{Append(s, x) : x \in S \ Range(s)} : s \in shorter}

(***************************************************************************)
(* The module namespace: the names lines 1-9 bind.  load_lora_weights      *)
(* looks up two more global names, convert_unet_state_dict_to_peft (line   *)
(* 288) and set_peft_model_state_dict (line 289); no import binds them.    *)
(***************************************************************************)
ModuleGlobals ==
    {"torch", "os", "logging",
     "ImageModelFoundation", "PredictionTypes", "PipelineTypes", "ModelTypes",
     "T5TokenizerFast", "T5EncoderModel", "CLIPTokenizer", "CLIPTextModelWithProjection",
     "SD3Transformer2DModel",
     "StableDiffusion3Pipeline", "StableDiffusion3Img2ImgPipeline",
     "AutoencoderKL",
     "convert_state_dict_to_diffusers",
     "get_peft_model_state_dict",
     "_get_rank",
     "logger", "_encode_sd3_prompt_with_t5", "_encode_sd3_prompt_with_clip", "SD3"}

(***************************************************************************)
(* The sub-models the SD3 object holds and their classes.                  *)
(***************************************************************************)
MODEL_CLASS == "SD3Transformer2DModel"

TEXT_ENCODER_CONFIGURATION ==
    [text_encoder   |-> [name |-> "CLIP-L/14",   model |-> "CLIPTextModelWithProjection"],
     text_encoder_2 |-> [name |-> "CLIP-G/14",   model |-> "CLIPTextModelWithProjection"],
     text_encoder_3 |-> [name |-> "T5 XXL v1.1", model |-> "T5EncoderModel"]]

\* self.transformer and self.text_encoders[0..2]
SubModels == {"transformer", "text_encoder", "text_encoder_2", "text_encoder_3"}

ClassOf(m) ==
    IF m = "transformer" THEN MODEL_CLASS ELSE TEXT_ENCODER_CONFIGURATION[m].model

\* self.unwrap_model(model=m): strips the distribution wrapper.  A roster entry
\* is [obj |-> sub-model, wrapper |-> BOOLEAN].
unwrap_model(m) == m.obj

Entry(o) == [obj |-> o, wrapper |-> o \in wrapped]

\* isinstance(unwrap_model(model), type(unwrap_model(reference))); none of the
\* classes above derives from another, so isinstance is equality of classes.
IsInstanceOfRef(model, reference) ==
    ClassOf(unwrap_model(model)) = ClassOf(unwrap_model(Entry(reference)))

\* the chain with its last test dropped: whatever is left is text encoder two
ClassifyLax(model) ==
    IF IsInstanceOfRef(model, "transformer") THEN "transformer_"
    ELSE IF IsInstanceOfRef(model, "text_encoder") THEN "text_encoder_one_"
    ELSE "text_encoder_two_"

\* The isinstance chain of lines 257-278: the slot a roster entry is assigned to.
Classify(model) ==
    IF IsInstanceOfRef(model, "transformer") THEN "transformer_"
    ELSE IF IsInstanceOfRef(model, "text_encoder") THEN "text_encoder_one_"
    ELSE IF IsInstanceOfRef(model, "text_encoder_2") THEN "text_encoder_two_"
    ELSE "unexpected"

(***************************************************************************)
(* Checkpoint keys are sequences of tokens, "." being a token of its own:  *)
(* "transformer.to_k.down" is <<"transformer", ".", "to_k", ".", "down">>. *)
(* A state dict is a sequence of <<key, tensor>> items with distinct keys, *)
(* in insertion order.                                                     *)
(***************************************************************************)
MODEL_SUBFOLDER == "transformer"

\* str.startswith
StartsWith(k, prefix) ==
    Len(k) >= Len(prefix) /\ SubSeq(k, 1, Len(prefix)) = prefix

RECURSIVE Replace(_, _, _)
\* str.replace(old, new): every non-overlapping occurrence, left to right
Replace(k, old, new) ==
    IF Len(k) < Len(old) THEN k
    ELSE IF StartsWith(k, old)
         THEN new \o Replace(SubSeq(k, Len(old) + 1, Len(k)), old, new)
         ELSE <<k[1]>> \o Replace(SubSeq(k, 2, Len(k)), old, new)

Keys(d) == {d[i][1] : i \in 1..Len(d)}

\* d[k] = v on a dict: overwrite in place, or insert at the end
DictPut(d, k, v) ==
    IF k \in Keys(d)
    THEN [i \in 1..Len(d) |-> IF d[i][1] = k THEN <<k, v>> ELSE d[i]]
    ELSE Append(d, <<k, v>>)

RECURSIVE DenoiserSlice(_, _)
\* lines 283-287: {k.replace(f"{key_to_replace}.", ""): v for k, v in
\* lora_state_dict.items() if k.startswith(f"{key_to_replace}.")}
DenoiserSlice(d, key_to_replace) ==
    IF d = <<>> THEN <<>>
    ELSE LET n == Len(d)
             before == DenoiserSlice(SubSeq(d, 1, n - 1), key_to_replace)
             k == d[n][1]
             pat == <<key_to_replace, ".">>
         IN  IF StartsWith(k, pat)
             THEN DictPut(before, Replace(k, pat, <<>>), d[n][2])
             ELSE before

\* diffusers' convert_unet_state_dict_to_peft (line 288): a rewrite of key
\* spelling, tensors untouched
PeftToken(t) ==
    IF t = "down" THEN "lora_A" ELSE IF t = "up" THEN "lora_B" ELSE t

convert_unet_state_dict_to_peft(d) ==
    [i \in 1..Len(d) |-> <<[j \in 1..Len(d[i][1]) |-> PeftToken(d[i][1][j])], d[i][2]>>]

\* the adapter keys the denoiser's adapter schema knows
DenoiserSchema == {<<"to_k", ".", "lora_A">>, <<"to_k", ".", "lora_B">>}

\* peft's set_peft_model_state_dict (lines 289-291): loads non-strictly and
\* reports the keys the model does not know
UnexpectedKeys(d) == Keys(d) \ DenoiserSchema

\* diffusers' _set_state_dict_into_text_encoder (lines 306-316): keeps the keys
\* under the prefix, strips it and loads them
TextEncoderSlice(d, prefix) ==
    {Replace(k, prefix, <<>>) : k \in {x \in Keys(d) : StartsWith(x, prefix)}}

Key1 == <<"transformer", ".", "to_k", ".", "down">>
Key2 == <<"transformer", ".", "to_k", ".", "up">>
Key3 == <<"transformer", ".", "extra", ".", "down">>
Key4 == <<"text_encoder", ".", "q", ".", "down">>
Key5 == <<"text_encoder_2", ".", "q", ".", "down">>
Key6 == <<"transformer", ".", "transformer", ".", "to_k", ".", "down">>
Key7 == <<"unrelated", ".", "w">>

\* the checkpoints read from input_dir
Checkpoints ==
    { <<>>,
      << <<Key1, "t1">>, <<Key2, "t2">>, <<Key4, "t4">>, <<Key5, "t5">> >>,
      << <<Key1, "t1">>, <<Key3, "t3">>, <<Key7, "t7">>, <<Key4, "t4">>, <<Key5, "t5">> >>,
      << <<Key1, "t1">>, <<Key6, "t6">> >> }

(***************************************************************************)
(* load_lora_weights                                                       *)
(***************************************************************************)
Slots == [transformer_ |-> transformer_, denoiser |-> denoiser,
          text_encoder_one_ |-> text_encoder_one_,
          text_encoder_two_ |-> text_encoder_two_]

EmptySlots == [transformer_ |-> None, denoiser |-> None,
               text_encoder_one_ |-> None, text_encoder_two_ |-> None]

\* one iteration of the while loop of lines 254-278 on the local state
\* [models, slots, err]: pop the last entry and classify it
PopStep(s) ==
    LET n == Len(s.models)
        model == s.models[n]
        rest == SubSeq(s.models, 1, n - 1)
        slot == Classify(model)
    IN  CASE slot = "transformer_" ->
                [models |-> rest, err |-> None,
                 slots |-> [s.slots EXCEPT !.transformer_ = model.obj,
                                           !.denoiser = model.obj]]
          [] slot = "text_encoder_one_" ->
                [models |-> rest, err |-> None,
                 slots |-> [s.slots EXCEPT !.text_encoder_one_ = model.obj]]
          [] slot = "text_encoder_two_" ->
                [models |-> rest, err |-> None,
                 slots |-> [s.slots EXCEPT !.text_encoder_two_ = model.obj]]
          [] OTHER ->
                [models |-> rest, err |-> "ValueError", slots |-> s.slots]

RECURSIVE Drain(_)
\* the whole loop: until the roster is empty or an entry is unexpected
Drain(s) ==
    IF s.err # None \/ Len(s.models) = 0 THEN s ELSE Drain(PopStep(s))

InitLoad ==
    /\ roster0 \in SeqsUpTo(SubModels, MaxRoster)
    /\ models = roster0
    /\ wrapped \in SUBSET {"transformer", "text_encoder_2"}
    /\ checkpoint \in Checkpoints
    /\ train_text_encoder \in BOOLEAN
    /\ transformer_ = None
    /\ denoiser = None
    /\ text_encoder_one_ = None
    /\ text_encoder_two_ = None
    /\ lora_state_dict = None
    /\ denoiser_state_dict = None
    /\ weights = [m \in SubModels |-> {}]
    /\ loadLog = <<>>
    /\ loadPc = "drain"
    /\ loadErr = None

\* lines 254-278, one iteration
LoadPop ==
    /\ loadPc = "drain"
    /\ Len(models) > 0
    /\ LET s == PopStep([models |-> [i \in 1..Len(models) |-> Entry(models[i])],
                         slots |-> Slots, err |-> None])
       IN  /\ models' = [i \in 1..Len(s.models) |-> s.models[i].obj]
           /\ transformer_' = s.slots.transformer_
           /\ denoiser' = s.slots.denoiser
           /\ text_encoder_one_' = s.slots.text_encoder_one_
           /\ text_encoder_two_' = s.slots.text_encoder_two_
           /\ loadErr' = s.err
           /\ loadPc' = IF s.err = None THEN "drain" ELSE "raised"
    /\ UNCHANGED <<roster0, wrapped, checkpoint, train_text_encoder, lora_state_dict,
                   denoiser_state_dict, weights, loadLog>>
    /\ UNCHANGED <<cfgVars, encVars>>

\* lines 280-287: the loop has ended; read the checkpoint, cut the denoiser slice
LoadRead ==
    /\ loadPc = "drain"
    /\ Len(models) = 0
    /\ lora_state_dict' = checkpoint
    /\ denoiser_state_dict' = DenoiserSlice(checkpoint, MODEL_SUBFOLDER)
    /\ loadPc' = "apply"
    /\ UNCHANGED <<models, roster0, wrapped, checkpoint, train_text_encoder, transformer_,
                   denoiser, text_encoder_one_, text_encoder_two_, weights, loadLog,
                   loadErr>>
    /\ UNCHANGED <<cfgVars, encVars>>

\* lines 288-316 once the two global names resolve: convert, apply to the
\* denoiser, warn about unexpected keys, inject into the text encoders.
\* Result: [weights, log, err].
ApplyTail(d, full, den, one, two, tte, w, log) ==
    IF den = None THEN [weights |-> w, log |-> log, err |-> "AttributeError"]
    ELSE
    LET peft == convert_unet_state_dict_to_peft(d)
        w1 == [w EXCEPT ![den] = @ \cup (Keys(peft) \cap DenoiserSchema)]
        log1 == IF UnexpectedKeys(peft) # {}
                THEN Append(log, <<"unexpected keys", UnexpectedKeys(peft)>>)
                ELSE log
    IN  IF ~tte THEN [weights |-> w1, log |-> log1, err |-> None]
        ELSE IF one = None THEN [weights |-> w1, log |-> log1, err |-> "AttributeError"]
        ELSE LET w2 == [w1 EXCEPT ![one] =
                            @ \cup TextEncoderSlice(full, <<"text_encoder", ".">>)]
             IN  IF two = None
                 THEN [weights |-> w2, log |-> log1, err |-> "AttributeError"]
                 ELSE [weights |-> [w2 EXCEPT ![two] =
                            @ \cup TextEncoderSlice(full, <<"text_encoder_2", ".">>)],
                       log |-> log1, err |-> None]

\* lines 288-316: the lookup of convert_unet_state_dict_to_peft at line 288
\* raises NameError unless the module binds the name
LoadTail(d, full, den, one, two, tte, w, log) ==
    IF {"convert_unet_state_dict_to_peft", "set_peft_model_state_dict"} \subseteq ModuleGlobals
    THEN ApplyTail(d, full, den, one, two, tte, w, log)
    ELSE [weights |-> w, log |-> log, err |-> "NameError"]

LoadApply ==
    /\ loadPc = "apply"
    /\ LET r == LoadTail(denoiser_state_dict, lora_state_dict, denoiser,
                         text_encoder_one_, text_encoder_two_, train_text_encoder,
                         weights, loadLog)
       IN  /\ weights' = r.weights
           /\ loadLog' = r.log
           /\ loadErr' = r.err
           /\ loadPc' = IF r.err = None THEN "returned" ELSE "raised"
    /\ UNCHANGED <<models, roster0, wrapped, checkpoint, train_text_encoder, transformer_,
                   denoiser, text_encoder_one_, text_encoder_two_, lora_state_dict,
                   denoiser_state_dict>>
    /\ UNCHANGED <<cfgVars, encVars>>

SpecLoadInit ==
    /\ InitLoad
    /\ config = None /\ config0 = None /\ cfgLog = <<>> /\ cfgPc = "idle"
    /\ prompts = <<>> /\ widths = <<>> /\ encConfig = None /\ embeds = None
    /\ stored = None /\ pipelineEmbeds = None /\ encPc = "idle"

NextLoad == LoadPop \/ LoadRead \/ LoadApply

(***************************************************************************)
(* Properties of load_lora_weights                                         *)
(***************************************************************************)
LoadEnded == loadPc \in {"returned", "raised"}
NoWeightsApplied == weights = [m \in SubModels |-> {}]
\* an entry whose class is the denoiser's
HasDenoiserEntry(r) == \E i \in 1..Len(r) : ClassOf(r[i]) = ClassOf("transformer")
\* an entry whose class is that of none of the three reference sub-models
HasUnexpectedEntry(r) ==
    \E i \in 1..Len(r) :
        ClassOf(r[i]) \notin {ClassOf(m) : m \in {"transformer", "text_encoder", "text_encoder_2"}}

\* C1: a call with a roster that holds no denoiser entry fails with the
\* classification error (the ValueError of line 274), and no sub-model has had
\* adapter weights applied.
C1_MissingDenoiserIsClassificationError ==
    (LoadEnded /\ ~HasDenoiserEntry(roster0)) =>
        (loadPc = "raised" /\ loadErr = "ValueError" /\ NoWeightsApplied)

\* C2: if a roster entry matches none of the three reference sub-models, then in
\* every state of the call the checkpoint has not been read and no adapter
\* weights have been applied, and the call ends by raising the ValueError,
\* wherever the entry stands in the roster.
C2_UnexpectedEntryAbortsBeforeAnyWeights ==
    HasUnexpectedEntry(roster0) =>
        /\ lora_state_dict = None
        /\ denoiser_state_dict = None
        /\ NoWeightsApplied
        /\ loadLog = <<>>
        /\ loadPc \in {"drain", "raised"}
        /\ LoadEnded => loadErr = "ValueError"
        /\ ~(loadPc = "drain" /\ models = <<>>)

\* the offending entry is the first of the roster (popped last), after a
\* denoiser and a text encoder were classified
C2_Witness ==
    /\ loadPc = "raised"
    /\ loadErr = "ValueError"
    /\ Len(roster0) = 3
    /\ roster0[1] = "text_encoder_3"
    /\ denoiser = "transformer"
    /\ text_encoder_one_ # None

\* C8: when the denoiser slice holds keys the denoiser does not know, the call
\* logs one warning and does not abort: the denoiser slice has been applied, and
\* with train_text_encoder set both text encoders receive their slice.
C8_UnexpectedKeysAreNotFatal ==
    LET peft == convert_unet_state_dict_to_peft(DenoiserSlice(checkpoint, MODEL_SUBFOLDER))
    IN  (/\ LoadEnded
         /\ HasDenoiserEntry(roster0)
         /\ ~HasUnexpectedEntry(roster0)
         /\ UnexpectedKeys(peft) # {}) =>
            /\ Len(loadLog) = 1
            /\ weights["transformer"] = Keys(peft) \cap DenoiserSchema
            /\ ~train_text_encoder => loadPc = "returned"
            /\ (train_text_encoder /\ {"text_encoder", "text_encoder_2"} \subseteq Range(roster0)) =>
                   /\ weights["text_encoder"] =
                          TextEncoderSlice(checkpoint, <<"text_encoder", ".">>)
                   /\ weights["text_encoder_2"] =
                          TextEncoderSlice(checkpoint, <<"text_encoder_2", ".">>)

\* C9: for a roster holding the denoiser and both CLIP text encoders, after the
\* drain the denoiser slot holds the denoiser, the text-encoder-1 slot the first
\* text encoder and the text-encoder-2 slot the second.
C9_EachEntryInItsOwnSlot ==
    (/\ loadPc # "drain"
     /\ Range(roster0) = {"transformer", "text_encoder", "text_encoder_2"}) =>
        /\ denoiser = "transformer"
        /\ text_encoder_one_ = "text_encoder"
        /\ text_encoder_two_ = "text_encoder_2"

RosterOrders(r) ==
    {p \in [1..Len(r) -> Range(r)] : Range(p) = Range(r)}

DrainOf(r) ==
    Drain([models |-> [i \in 1..Len(r) |-> Entry(r[i])], slots |-> EmptySlots,
           err |-> None])

\* C10: for every roster and every permutation of it the drain ends with the
\* roster empty and the same entry in each slot, or fails for both orders.
C10_RosterOrderIrrelevant ==
    (loadPc # "drain") =>
        \A p \in RosterOrders(roster0) :
            LET d == DrainOf(p)
            IN  /\ (d.err = None) <=> (loadErr # "ValueError")
                /\ d.err = None => (d.slots = Slots /\ d.models = <<>> /\ models = <<>>)

SpecLoad == SpecLoadInit /\ [][NextLoad]_vars

(***************************************************************************)
(* check_user_config                                                       *)
(***************************************************************************)
t5_max_length == 154
MaxDelta == 2

Some(n) == <<n>>
NoneInt == <<>>

TokenizerLengths ==
    {NoneInt} \cup {Some(n) : n \in (t5_max_length - MaxDelta)..(t5_max_length + MaxDelta)}
              \cup {Some(300)}

Alignments == {NoneInt, Some(64)} \cup {Some(8 * n) : n \in 1..MaxDelta}

Configs ==
    [base_model_precision : {"no_change", "int8-quanto", "fp8-quanto"},
     tokenizer_max_length : TokenizerLengths,
     i_know_what_i_am_doing : BOOLEAN,
     pretrained_vae_model_name_or_path : {None, "madebyollin/sdxl-vae-fp16-fix"},
     disable_compel : BOOLEAN,
     aspect_bucket_alignment : Alignments,
     sd3_t5_uncond_behaviour : {None, "zero"},
     sd3_clip_uncond_behaviour : {"empty_string", "zero"}]

Warning(msg) == [level |-> "warning", msg |-> msg]
Info(msg) == [level |-> "info", msg |-> msg]

\* the length rule with the override flag ignored
ClampTokenizerAlways(c, log) ==
    IF c.tokenizer_max_length = NoneInt \/ c.tokenizer_max_length[1] > t5_max_length
    THEN [config |-> [c EXCEPT !.tokenizer_max_length = Some(t5_max_length)],
          log |-> Append(log, Warning("Updating T5 XXL tokeniser max length"))]
    ELSE [config |-> c, log |-> log]

\* lines 326-339
ClampTokenizer(c, log) ==
    IF c.tokenizer_max_length = NoneInt \/ c.tokenizer_max_length[1] > t5_max_length
    THEN IF ~c.i_know_what_i_am_doing
         THEN [config |-> [c EXCEPT !.tokenizer_max_length = Some(t5_max_length)],
               log |-> Append(log, Warning("Updating T5 XXL tokeniser max length"))]
         ELSE [config |-> c,
               log |-> log \o <<Warning("this limit will not be enforced"),
                                Warning("The model will begin to collapse")>>]
    ELSE [config |-> c, log |-> log]

\* the alignment rule skipping an unset value
ForceAlignmentIfSet(c, log) ==
    IF c.aspect_bucket_alignment # NoneInt /\ c.aspect_bucket_alignment # Some(64)
    THEN [config |-> [c EXCEPT !.aspect_bucket_alignment = Some(64)],
          log |-> Append(log, Warning("Overriding the value of --aspect_bucket_alignment"))]
    ELSE [config |-> c, log |-> log]

\* lines 344-348
ForceAlignment(c, log) ==
    IF c.aspect_bucket_alignment # Some(64)
    THEN [config |-> [c EXCEPT !.aspect_bucket_alignment = Some(64)],
          log |-> Append(log, Warning("Overriding the value of --aspect_bucket_alignment"))]
    ELSE [config |-> c, log |-> log]

\* lines 340-343
DisableVaeAndCompel(c) ==
    [c EXCEPT !.pretrained_vae_model_name_or_path = None, !.disable_compel = TRUE]

\* lines 349-353
DefaultUncond(c, log) ==
    LET c1 == IF c.sd3_t5_uncond_behaviour = None
              THEN [c EXCEPT !.sd3_t5_uncond_behaviour = c.sd3_clip_uncond_behaviour]
              ELSE c
    IN  [config |-> c1, log |-> Append(log, Info("SD3 embeds for unconditional captions"))]

\* lines 318-353: [config, log, err]
check_user_config(c) ==
    IF c.base_model_precision = "fp8-quanto"
    THEN [config |-> c, log |-> <<>>, err |-> "ValueError"]
    ELSE LET r1 == ClampTokenizer(c, <<>>)
             r2 == ForceAlignment(DisableVaeAndCompel(r1.config), r1.log)
             r3 == DefaultUncond(r2.config, r2.log)
         IN  [config |-> r3.config, log |-> r3.log, err |-> None]

InitConfig ==
    /\ config0 \in Configs
    /\ config = config0
    /\ cfgLog = <<>>
    /\ cfgPc = "start"

CheckUserConfig ==
    /\ cfgPc = "start"
    /\ LET r == check_user_config(config)
       IN  /\ config' = r.config
           /\ cfgLog' = r.log
           /\ cfgPc' = IF r.err = None THEN "returned" ELSE "raised"
    /\ UNCHANGED config0
    /\ UNCHANGED <<loadVars, encVars>>

SpecConfigInit ==
    /\ InitConfig
    /\ models = <<>> /\ roster0 = <<>> /\ wrapped = {} /\ checkpoint = <<>>
    /\ train_text_encoder = FALSE /\ transformer_ = None /\ denoiser = None
    /\ text_encoder_one_ = None /\ text_encoder_two_ = None /\ lora_state_dict = None
    /\ denoiser_state_dict = None /\ weights = [m \in SubModels |-> {}]
    /\ loadLog = <<>> /\ loadPc = "idle" /\ loadErr = None
    /\ prompts = <<>> /\ widths = <<>> /\ encConfig = None /\ embeds = None
    /\ stored = None /\ pipelineEmbeds = None /\ encPc = "idle"

NextConfig == CheckUserConfig

SpecConfig == SpecConfigInit /\ [][NextConfig]_vars

(***************************************************************************)
(* Properties of check_user_config                                         *)
(***************************************************************************)
Count(log, msg) == Cardinality({i \in 1..Len(log) : log[i] = msg})

LengthNotices == Count(cfgLog, Warning("Updating T5 XXL tokeniser max length"))
OverrideWarnings ==
    Count(cfgLog, Warning("this limit will not be enforced"))
        + Count(cfgLog, Warning("The model will begin to collapse"))
AlignmentWarnings ==
    Count(cfgLog, Warning("Overriding the value of --aspect_bucket_alignment"))

TooLong(t) == t # NoneInt /\ t[1] > t5_max_length

\* C3: once the validator has returned: with i_know_what_i_am_doing false the
\* tokenizer max length is at most 154 (154 if it was unset or above 154, else
\* unchanged) and the length notice is logged once exactly when the value was
\* changed; with the flag true and a value above 154 the value is unchanged and
\* exactly the two override warnings of the length rule are logged.
C3_TokenizerLengthClamp ==
    cfgPc = "returned" =>
        LET t0 == config0.tokenizer_max_length
            t == config.tokenizer_max_length
        IN  /\ ~config0.i_know_what_i_am_doing =>
                /\ t # NoneInt
                /\ t[1] <= t5_max_length
                /\ t = IF t0 = NoneInt \/ TooLong(t0) THEN Some(t5_max_length) ELSE t0
                /\ LengthNotices = IF t # t0 THEN 1 ELSE 0
                /\ OverrideWarnings = 0
            /\ (config0.i_know_what_i_am_doing /\ TooLong(t0)) =>
                /\ t = t0
                /\ OverrideWarnings = 2
                /\ Count(cfgLog, Warning("this limit will not be enforced")) = 1
                /\ LengthNotices = 0

\* 300 tokens kept under the override flag
C3_Witness ==
    /\ cfgPc = "returned"
    /\ config0.tokenizer_max_length = Some(300)
    /\ config0.i_know_what_i_am_doing
    /\ config.tokenizer_max_length = Some(300)
    /\ OverrideWarnings = 2

ForcedFields ==
    /\ config.aspect_bucket_alignment = Some(64)
    /\ config.pretrained_vae_model_name_or_path = None
    /\ config.disable_compel = TRUE
    /\ (AlignmentWarnings = 1) <=> (config0.aspect_bucket_alignment # Some(64))
    /\ AlignmentWarnings <= 1

\* C4 as stated: for every initial configuration, a run of the validator leaves
\* aspect_bucket_alignment at 64, the autoencoder override unset and
\* disable_compel true, and logs the alignment override exactly when the
\* supplied value was not 64.
C4_ForcingUnconditional ==
    cfgPc \in {"returned", "raised"} => ForcedFields

\* C4 amended: the same for every initial configuration whose
\* base_model_precision is not "fp8-quanto"; with "fp8-quanto" the validator
\* raises before any rule runs and leaves the configuration as it was.
C4_ForcingUnlessRejected ==
    /\ (cfgPc \in {"returned", "raised"} /\ config0.base_model_precision # "fp8-quanto") =>
           (cfgPc = "returned" /\ ForcedFields)
    /\ (cfgPc \in {"returned", "raised"} /\ config0.base_model_precision = "fp8-quanto") =>
           (cfgPc = "raised" /\ config = config0 /\ cfgLog = <<>>)

\* every forced field started away from its forced value
C4_Witness ==
    /\ cfgPc = "returned"
    /\ config0.aspect_bucket_alignment = NoneInt
    /\ config0.pretrained_vae_model_name_or_path # None
    /\ ~config0.disable_compel
    /\ config0.i_know_what_i_am_doing
    /\ ForcedFields

(***************************************************************************)
(* Tensors.  A tensor is [shape, data]: its dimensions and its elements in *)
(* row-major order.                                                        *)
(***************************************************************************)
\* the batch, sequence and column index of the k-th element of a rank-3 tensor
\* with S rows of H columns per batch element (rank 2: S = 1)
BatchOf(k, S, H) == ((k - 1) \div (S * H)) + 1
SeqOf(k, S, H) == (((k - 1) \div H) % S) + 1
ColOf(k, H) == ((k - 1) % H) + 1

At2(t, b, h) == t.data[(b - 1) * t.shape[2] + h]
At3(t, b, q, h) == t.data[((b - 1) * t.shape[2] + (q - 1)) * t.shape[3] + h]

\* torch.cat([x, y], dim=-1) on rank 2
CatLast2(x, y) ==
    LET B == x.shape[1]
        H == x.shape[2] + y.shape[2]
    IN  [shape |-> <<B, H>>,
         data |-> [k \in 1..(B * H) |->
                      LET b == BatchOf(k, 1, H)
                          h == ColOf(k, H)
                      IN  IF h <= x.shape[2] THEN At2(x, b, h)
                          ELSE At2(y, b, h - x.shape[2])]]

\* torch.cat([x, y], dim=-1) on rank 3
CatLast3(x, y) ==
    LET B == x.shape[1]
        S == x.shape[2]
        H == x.shape[3] + y.shape[3]
    IN  [shape |-> <<B, S, H>>,
         data |-> [k \in 1..(B * S * H) |->
                      LET b == BatchOf(k, S, H)
                          q == SeqOf(k, S, H)
                          h == ColOf(k, H)
                      IN  IF h <= x.shape[3] THEN At3(x, b, q, h)
                          ELSE At3(y, b, q, h - x.shape[3])]]

\* torch.cat with the operands in the other order
CatSeqSwapped(x, y) ==
    LET B == x.shape[1]
        S == x.shape[2] + y.shape[2]
        H == x.shape[3]
    IN  [shape |-> <<B, S, H>>,
         data |-> [k \in 1..(B * S * H) |->
                      LET b == BatchOf(k, S, H)
                          q == SeqOf(k, S, H)
                          h == ColOf(k, H)
                      IN  IF q <= y.shape[2] THEN At3(y, b, q, h)
                          ELSE At3(x, b, q - y.shape[2], h)]]

\* torch.cat([x, y], dim=-2) on rank 3
CatSeq(x, y) ==
    LET B == x.shape[1]
        S == x.shape[2] + y.shape[2]
        H == x.shape[3]
    IN  [shape |-> <<B, S, H>>,
         data |-> [k \in 1..(B * S * H) |->
                      LET b == BatchOf(k, S, H)
                          q == SeqOf(k, S, H)
                          h == ColOf(k, H)
                      IN  IF q <= x.shape[2] THEN At3(x, b, q, h)
                          ELSE At3(y, b, q - x.shape[2], h)]]

\* torch.nn.functional.pad(x, (0, d)): d zeros appended to the last axis; a
\* negative d removes -d trailing columns
PadLast(x, d) ==
    LET B == x.shape[1]
        S == x.shape[2]
        H == x.shape[3] + d
    IN  [shape |-> <<B, S, H>>,
         data |-> [k \in 1..(B * S * H) |->
                      LET h == ColOf(k, H)
                      IN  IF h <= x.shape[3]
                          THEN At3(x, BatchOf(k, S, H), SeqOf(k, S, H), h)
                          ELSE 0]]

\* tensor.repeat(1, n, 1) followed by view(batch_size * n, seq_len, -1)
RepeatView(x, n) ==
    LET B == x.shape[1]
        S == x.shape[2]
        H == x.shape[3]
        repeated == [k \in 1..(B * S * n * H) |->
                        At3(x, BatchOf(k, S * n, H),
                            ((SeqOf(k, S * n, H) - 1) % S) + 1, ColOf(k, H))]
    IN  [shape |-> <<B * n, S, H>>, data |-> repeated]

\* squeeze that leaves the tensor as it is
SqueezeNone(t) == t

\* tensor.squeeze(0): drops the leading dimension when it is 1
Squeeze0(t) ==
    IF t.shape[1] = 1 THEN [shape |-> Tail(t.shape), data |-> t.data] ELSE t

\* tensor.unsqueeze(0)
Unsqueeze0(t) == [shape |-> <<1>> \o t.shape, data |-> t.data]

(***************************************************************************)
(* Tokenizers and encoders.  A prompt is its T5 token count (end-of-text   *)
(* token included); an encoder's output is some non-zero number for each   *)
(* position.                                                               *)
(***************************************************************************)
max_token_length == 77
MaxPrompts == 2
MaxTokens == 2
MaxT5Length == 2
MaxWidth == 2

Min(a, b) == IF a <= b THEN a ELSE b

\* text_encoder(text_input_ids): encoder i, prompt of n tokens, position q, column h
EncoderOutput(i, n, q, h) == 1 + ((7 * i + 5 * n + 3 * q + h) % 9)

\* text_inputs.attention_mask of the T5 tokenizer with padding="max_length" and
\* truncation=True
AttentionMask(n, max_length, q) == IF q <= Min(n, max_length) THEN 1 ELSE 0

num_images_per_prompt == 1

\* lines 14-53
encode_sd3_prompt_with_t5(prompt, width, zero_padding_tokens, max_sequence_length) ==
    LET B == Len(prompt)
        S == max_sequence_length
        raw == [shape |-> <<B, S, width>>,
                data |-> [k \in 1..(B * S * width) |->
                             EncoderOutput(3, prompt[BatchOf(k, S, width)],
                                           SeqOf(k, S, width), ColOf(k, width))]]
        prompt_embeds == RepeatView(raw, num_images_per_prompt)
        attention_mask == [b \in 1..B |-> [q \in 1..S |-> AttentionMask(prompt[b], S, q)]]
    IN  IF zero_padding_tokens
        THEN [shape |-> prompt_embeds.shape,
              data |-> [k \in 1..Len(prompt_embeds.data) |->
                           prompt_embeds.data[k]
                               * attention_mask[BatchOf(k, S, width)][SeqOf(k, S, width)]]]
        ELSE prompt_embeds

\* lines 55-85: [prompt_embeds, pooled_prompt_embeds]; the projection width of
\* each CLIP encoder is its hidden width
encode_sd3_prompt_with_clip(i, prompt, width) ==
    LET B == Len(prompt)
        S == max_token_length
        hidden == [shape |-> <<B, S, width>>,
                   data |-> [k \in 1..(B * S * width) |->
                                EncoderOutput(i, prompt[BatchOf(k, S, width)],
                                              SeqOf(k, S, width), ColOf(k, width))]]
        pooled == [shape |-> <<B, width>>,
                   data |-> [k \in 1..(B * width) |->
                                EncoderOutput(i, prompt[BatchOf(k, 1, width)], 0,
                                              ColOf(k, width))]]
    IN  [prompt_embeds |-> RepeatView(hidden, num_images_per_prompt),
         pooled_prompt_embeds |-> pooled]

\* masking whenever it is not switched off by name
ZeroPaddingUnlessDisabled(c) == c.t5_padding # "unmodified"

\* lines 199-201
ZeroPaddingTokens(c) == c.t5_padding = "zero"

\* lines 165-218
encode_prompts(prompt, w, c) ==
    LET clip1 == encode_sd3_prompt_with_clip(1, prompt, w[1])
        clip2 == encode_sd3_prompt_with_clip(2, prompt, w[2])
        clip_prompt_embeds == CatLast3(clip1.prompt_embeds, clip2.prompt_embeds)
        pooled_prompt_embeds ==
            CatLast2(clip1.pooled_prompt_embeds, clip2.pooled_prompt_embeds)
        t5_prompt_embed ==
            encode_sd3_prompt_with_t5(prompt, w[3], ZeroPaddingTokens(c),
                                      c.tokenizer_max_length)
        padded == PadLast(clip_prompt_embeds,
                          t5_prompt_embed.shape[3] - clip_prompt_embeds.shape[3])
    IN  [prompt_embeds |-> CatSeq(padded, t5_prompt_embed),
         pooled_prompt_embeds |-> pooled_prompt_embeds]

\* lines 133-149
format_text_embedding(text_embedding) ==
    [prompt_embeds |-> text_embedding.prompt_embeds,
     pooled_prompt_embeds |-> Squeeze0(text_embedding.pooled_prompt_embeds)]

\* lines 151-156
convert_text_embed_for_pipeline(text_embedding) ==
    [prompt_embeds |-> Unsqueeze0(text_embedding.prompt_embeds),
     pooled_prompt_embeds |-> Unsqueeze0(text_embedding.pooled_prompt_embeds)]

PromptLists ==
    UNION {[1..B -> 1..MaxTokens] : B \in 1..MaxPrompts}

InitEncode ==
    /\ prompts \in PromptLists
    /\ widths \in (1..MaxWidth) \X (1..MaxWidth) \X (1..(MaxWidth + 1))
    /\ encConfig \in [t5_padding : {None, "zero", "unmodified", "max_length"},
                      tokenizer_max_length : 1..MaxT5Length]
    /\ embeds = None
    /\ stored = None
    /\ pipelineEmbeds = None
    /\ encPc = "start"

EncodePrompts ==
    /\ encPc = "start"
    /\ embeds' = encode_prompts(prompts, widths, encConfig)
    /\ encPc' = "encoded"
    /\ UNCHANGED <<prompts, widths, encConfig, stored, pipelineEmbeds>>
    /\ UNCHANGED <<loadVars, cfgVars>>

FormatTextEmbedding ==
    /\ encPc = "encoded"
    /\ stored' = format_text_embedding(embeds)
    /\ encPc' = "stored"
    /\ UNCHANGED <<prompts, widths, encConfig, embeds, pipelineEmbeds>>
    /\ UNCHANGED <<loadVars, cfgVars>>

ConvertTextEmbedForPipeline ==
    /\ encPc = "stored"
    /\ pipelineEmbeds' = convert_text_embed_for_pipeline(stored)
    /\ encPc' = "converted"
    /\ UNCHANGED <<prompts, widths, encConfig, embeds, stored>>
    /\ UNCHANGED <<loadVars, cfgVars>>

SpecEncodeInit ==
    /\ InitEncode
    /\ models = <<>> /\ roster0 = <<>> /\ wrapped = {} /\ checkpoint = <<>>
    /\ train_text_encoder = FALSE /\ transformer_ = None /\ denoiser = None
    /\ text_encoder_one_ = None /\ text_encoder_two_ = None /\ lora_state_dict = None
    /\ denoiser_state_dict = None /\ weights = [m \in SubModels |-> {}]
    /\ loadLog = <<>> /\ loadPc = "idle" /\ loadErr = None
    /\ config = None /\ config0 = None /\ cfgLog = <<>> /\ cfgPc = "idle"

NextEncode == EncodePrompts \/ FormatTextEmbedding \/ ConvertTextEmbedForPipeline

SpecEncode == SpecEncodeInit /\ [][NextEncode]_vars

(***************************************************************************)
(* Properties of _encode_prompts and of the formatters                     *)
(***************************************************************************)
\* _encode_prompts has just returned (embeds is not written afterwards)
Encoded == encPc = "encoded"
BatchSize == Len(prompts)
T5Length == encConfig.tokenizer_max_length
ClipWidth == widths[1] + widths[2]

\* the two CLIP sequence outputs joined on the hidden axis
JoinedClip ==
    CatLast3(encode_sd3_prompt_with_clip(1, prompts, widths[1]).prompt_embeds,
             encode_sd3_prompt_with_clip(2, prompts, widths[2]).prompt_embeds)

ExpectedShape ==
    embeds.prompt_embeds.shape = <<BatchSize, max_token_length + T5Length, widths[3]>>

\* the T5 rows of prompt_embeds are the T5 encoder's output, masked exactly
\* when t5_padding is "zero"
T5RowsFollow ==
    \A b \in 1..BatchSize, q \in 1..T5Length, h \in 1..widths[3] :
        At3(embeds.prompt_embeds, b, max_token_length + q, h) =
            IF encConfig.t5_padding = "zero" /\ q > prompts[b]
            THEN 0 ELSE EncoderOutput(3, prompts[b], q, h)

\* C6 as stated: prompt_embeds has shape (prompts, 77 + T5 max length, T5
\* width) for every combination of widths, its first 77 rows being the joined
\* CLIP outputs, all of their columns, followed by zeros up to the T5 width, and
\* its other rows the T5 output.
C6_ShapeAndZeroPadding ==
    Encoded =>
        /\ ExpectedShape
        /\ \A b \in 1..BatchSize, q \in 1..max_token_length :
              /\ \A h \in 1..ClipWidth :
                    /\ h <= widths[3]
                    /\ At3(embeds.prompt_embeds, b, q, h) = At3(JoinedClip, b, q, h)
              /\ \A h \in (ClipWidth + 1)..widths[3] :
                    At3(embeds.prompt_embeds, b, q, h) = 0
        /\ T5RowsFollow

\* C6 amended: the shape is (prompts, 77 + T5 max length, T5 width) for every
\* combination of widths; the first 77 rows are the joined CLIP outputs followed
\* by zeros up to the T5 width when the joined CLIP width does not exceed the T5
\* width, and the joined CLIP outputs cut down to their first T5-width columns
\* when it does; the other rows are the T5 output.
C6_ShapeAndPadOrCrop ==
    Encoded =>
        /\ ExpectedShape
        /\ Len(embeds.prompt_embeds.data) =
               BatchSize * (max_token_length + T5Length) * widths[3]
        /\ \A b \in 1..BatchSize, q \in 1..max_token_length, h \in 1..widths[3] :
              At3(embeds.prompt_embeds, b, q, h) =
                  IF h <= ClipWidth THEN At3(JoinedClip, b, q, h) ELSE 0
        /\ T5RowsFollow

\* two prompts, the CLIP block padded with a zero column
C6_Witness ==
    /\ Encoded
    /\ BatchSize = 2
    /\ ClipWidth < widths[3]
    /\ T5Length = 2
    /\ embeds.prompt_embeds.shape = <<2, max_token_length + 2, 3>>
    /\ At3(embeds.prompt_embeds, 2, max_token_length, 3) = 0
    /\ At3(embeds.prompt_embeds, 2, max_token_length, 2) # 0

\* the T5 embedding of prompt b at position q, column h
T5Embed(b, q, h) == At3(embeds.prompt_embeds, b, max_token_length + q, h)

ZeroedBeyondTokens ==
    \A b \in 1..BatchSize, q \in 1..T5Length, h \in 1..widths[3] :
        T5Embed(b, q, h) = IF q > prompts[b] THEN 0 ELSE EncoderOutput(3, prompts[b], q, h)

RawEverywhere ==
    \A b \in 1..BatchSize, q \in 1..T5Length, h \in 1..widths[3] :
        T5Embed(b, q, h) = EncoderOutput(3, prompts[b], q, h)

\* C7 as stated: the T5 embedding is multiplied by the attention mask for every
\* value of t5_padding except the one that disables masking ("unmodified"), so
\* also when it is unset or has any other value: then every position beyond the
\* prompt's token count is zero; with masking disabled every position is the raw
\* encoder output.
C7_MaskedUnlessDisabled ==
    Encoded =>
        IF encConfig.t5_padding # "unmodified" THEN ZeroedBeyondTokens ELSE RawEverywhere

\* C7 amended: the T5 embedding is multiplied by the attention mask exactly when
\* t5_padding is "zero": then every position beyond the prompt's token count is
\* zero; for every other value (unset, "unmodified", anything else) every
\* position is the raw encoder output.
C7_MaskedOnlyWhenZero ==
    Encoded =>
        IF encConfig.t5_padding = "zero" THEN ZeroedBeyondTokens ELSE RawEverywhere

\* t5_padding unset and a prompt shorter than the T5 length: its padding
\* positions hold the raw output
C7_Witness ==
    /\ Encoded
    /\ encConfig.t5_padding = None
    /\ \E b \in 1..BatchSize :
          /\ prompts[b] < T5Length
          /\ T5Embed(b, T5Length, 1) # 0

\* C5 as stated: after _format_text_embedding and
\* convert_text_embed_for_pipeline both prompt_embeds and pooled_prompt_embeds
\* have the shape encode returned with one leading dimension of size 1 added,
\* and the same contents, for every batch size.
C5_RoundTripAddsLeadingDimension ==
    encPc = "converted" =>
        /\ pipelineEmbeds.prompt_embeds.shape = <<1>> \o embeds.prompt_embeds.shape
        /\ pipelineEmbeds.prompt_embeds.data = embeds.prompt_embeds.data
        /\ pipelineEmbeds.pooled_prompt_embeds.shape =
               <<1>> \o embeds.pooled_prompt_embeds.shape
        /\ pipelineEmbeds.pooled_prompt_embeds.data = embeds.pooled_prompt_embeds.data

\* C5 amended: prompt_embeds comes back with one leading dimension of size 1
\* added; pooled_prompt_embeds comes back with one leading dimension of size 1
\* added when the batch holds more than one prompt and with its original shape
\* when the batch holds one prompt; the contents of both are unchanged.
C5_RoundTripPooledKeepsShapeForOnePrompt ==
    encPc = "converted" =>
        /\ pipelineEmbeds.prompt_embeds.shape = <<1>> \o embeds.prompt_embeds.shape
        /\ pipelineEmbeds.prompt_embeds.data = embeds.prompt_embeds.data
        /\ pipelineEmbeds.pooled_prompt_embeds.shape =
               IF BatchSize = 1 THEN embeds.pooled_prompt_embeds.shape
               ELSE <<1>> \o embeds.pooled_prompt_embeds.shape
        /\ pipelineEmbeds.pooled_prompt_embeds.data = embeds.pooled_prompt_embeds.data

\* one prompt: the pooled embedding is squeezed for storage and comes back (1, P)
C5_Witness ==
    /\ encPc = "converted"
    /\ BatchSize = 1
    /\ stored.pooled_prompt_embeds.shape = <<ClipWidth>>
    /\ pipelineEmbeds.pooled_prompt_embeds.shape = <<1, ClipWidth>>
    /\ pipelineEmbeds.prompt_embeds.shape =
           <<1, 1, max_token_length + T5Length, widths[3]>>

====
